---- MODULE Spec2Model ----
(***************************************************************************)
(* Draft engine of the fantasy-hockey league manager.                      *)
(*                                                                         *)
(* The model follows src/league/draft/services.py: the grid builder        *)
(* (create_or_rebuild_draft) and the draft runtime (start_draft,           *)
(* tick_draft, make_pick, autopick_current, advance_to_next_pick) over the *)
(* rows of src/league/models.py (Draft, DraftOrder, DraftPick, Roster).    *)
(*                                                                         *)
(* Every service function is modelled as an operator from the caller's     *)
(* in-memory Draft object `d` and the stored rows to the rows after the    *)
(* call, the exception raised (if any) and the returned pick.  A function  *)
(* decorated with @transaction.atomic restores the stored rows when it     *)
(* raises; the in-memory object keeps what was assigned to it.             *)
(***************************************************************************)
EXTENDS Integers, Sequences, FiniteSets, TLC

VARIABLES
    draft,      \* the stored Draft row
    order,      \* the stored DraftOrder rows: a set of [team, position]
    picks,      \* the stored DraftPick rows, indexed by pick_number
    roster,     \* the stored Roster rows: a set of <<team, player>>
    teams,      \* the Team rows of the league (their ids)
    players,    \* the stored Player rows, indexed by id
    now,        \* timezone.now()
    last,       \* the last service call and how it ended
    calls,      \* how many builds and starts have succeeded so far
    reqs        \* the web requests in flight (concurrent specification)

vars == <<draft, order, picks, roster, teams, players, now, last, calls, reqs>>

-----------------------------------------------------------------------------
(* Bounds of the model *)

MaxTeams == 2       \* teams of the league are 1..MaxTeams
MaxRounds == 2      \* rounds a build may ask for
MaxTime == 6        \* the wall clock stops advancing here
NumProcs == 2       \* concurrent web requests
MaxBuilds == 2      \* successful create_or_rebuild_draft calls
MaxStarts == 2      \* successful start_draft calls

(* Program constants *)

DefaultRounds == 16         \* Draft.rounds default
DefaultTimePerPick == 120   \* Draft.time_per_pick default
MinRounds == 1              \* create_or_rebuild_draft: rounds < 1 is refused
MinTimePerPick == 5         \* create_or_rebuild_draft: time_per_pick < 5 is refused
GoalieTarget == 2           \* _infer_team_need: goalies wanted before skaters

NoTime == 0 - 1     \* a DateTimeField holding None
NoPlayer == 0       \* a player foreign key holding None
NoTeam == 0         \* a team foreign key holding None
NoPick == 0         \* a function returning None instead of a DraftPick

STATUS_UPCOMING == "UPCOMING"
STATUS_ON_CLOCK == "ON_CLOCK"
STATUS_MADE == "MADE"
STATUS_AUTO == "AUTO"

-----------------------------------------------------------------------------
(* The collaborators' data: teams, their managers, and the player table *)

AllTeams == 1..MaxTeams

\* Team.manager_id; user MaxTeams + 1 manages no team
manager_id(t) == t
Users == 1..(MaxTeams + 1)

\* Team.name as character codes: "Bruins" < "avalanche" by code point, but
\* "avalanche" < "bruins" once lowered
TeamName(t) ==
    CASE t = 1 -> <<66, 114>>        \* "Br"
      [] t = 2 -> <<97, 118>>        \* "av"
      [] t = 3 -> <<67, 97>>         \* "Ca"
      [] OTHER -> <<68, 117, t>>     \* "Du" + id

\* The Player rows of the league's database.  position holds character codes ("G" = 71, "g" = 103,
\* "C" = 67, "D" = 68, "L" = 76, "W" = 87).
PlayerTable ==
    <<  [full_name |-> <<72>>, position |-> <<71>>,     fantasy_score |-> 9, is_active |-> TRUE],
        [full_name |-> <<65>>, position |-> <<76, 87>>, fantasy_score |-> 7, is_active |-> TRUE],
        [full_name |-> <<80>>, position |-> <<103>>,    fantasy_score |-> 8, is_active |-> FALSE] >>

Players == DOMAIN players

\* a player id the Player table does not hold
UnknownPlayer == Len(players) + 1

-----------------------------------------------------------------------------
(* Strings and sequences *)

\* str.lower() on one character code
LowerChar(c) == IF c >= 65 /\ c <= 90 THEN c + 32 ELSE c

\* str.lower()
Lower(s) == [i \in DOMAIN s |-> LowerChar(s[i])]

\* Python's a < b on strings
StrLess(a, b) ==
    \E k \in 1..(Len(a) + 1) :
        /\ \A j \in 1..(k - 1) : j <= Len(b) /\ a[j] = b[j]
        /\ \/ k = Len(a) + 1 /\ Len(b) >= k
           \/ k <= Len(a) /\ k <= Len(b) /\ a[k] < b[k]

\* position__icontains="G"
IsGoalie(p) == \E i \in DOMAIN players[p].position : LowerChar(players[p].position[i]) = 103

\* list(reversed(seq))
Reversed(seq) == [i \in 1..Len(seq) |-> seq[Len(seq) - i + 1]]

\* the sequences that hold every element of S exactly once
Orderings(S) ==
    {f \in [1..Cardinality(S) -> S] : \A i, j \in 1..Cardinality(S) : f[i] = f[j] => i = j}

Min(S) == CHOOSE x \in S : \A y \in S : x <= y

-----------------------------------------------------------------------------
(* Rows and results *)

\* Draft.objects.get_or_create(league=league): the model's field defaults
NewDraft(dtype, omode) ==
    [ rounds |-> DefaultRounds, time_per_pick |-> DefaultTimePerPick,
      draft_type |-> dtype, order_mode |-> omode,
      is_active |-> FALSE, is_completed |-> FALSE, current_pick |-> 1,
      started_at |-> NoTime, completed_at |-> NoTime,
      current_pick_started_at |-> NoTime ]

\* What a service call works on: d is the caller's Draft object, the other
\* fields are the stored rows.
Rows(d) == [d |-> d, draft |-> draft, order |-> order, picks |-> picks, roster |-> roster]

\* A call that returns: the rows after it and the pick it returns (or NoPick)
Return(s, pick) == [s |-> s, exc |-> "", ret |-> pick]

\* A call that raises with no transaction around it: the rows written before
\* the exception stay
RaiseAtomic_NoRollback(s0, s, e) == [s |-> s, exc |-> e, ret |-> NoPick]

\* A call that raises inside @transaction.atomic: the stored rows are those of
\* before the call (s0); the in-memory object keeps its assignments (s.d)
RaiseAtomic(s0, s, e) == [s |-> [s0 EXCEPT !.d = s.d], exc |-> e, ret |-> NoPick]

\* draft.save(update_fields=fields): those fields of d go to the stored row
SaveDraft(s, fields) ==
    [s EXCEPT !.draft = [f \in DOMAIN s.draft |-> IF f \in fields THEN s.d[f] ELSE s.draft[f]]]

AllDraftFields ==
    {"rounds", "time_per_pick", "draft_type", "order_mode", "is_active", "is_completed",
     "current_pick", "started_at", "completed_at", "current_pick_started_at"}

-----------------------------------------------------------------------------
(* Draft creation *)

\* sorted(list(teams), key=lambda t: t.name or ""): the case-sensitive order
SortedAlpha_CaseSensitive(T) ==
    CHOOSE f \in Orderings(T) :
        \A i, j \in 1..Cardinality(T) :
            i < j => \/ StrLess(TeamName(f[i]), TeamName(f[j]))
                     \/ TeamName(f[i]) = TeamName(f[j]) /\ f[i] < f[j]

\* sorted(list(teams), key=lambda t: (t.name or "").lower()) over teams in id
\* order: a stable sort, so equal keys keep the id order
SortedAlpha(T) ==
    CHOOSE f \in Orderings(T) :
        \A i, j \in 1..Cardinality(T) :
            i < j => \/ StrLess(Lower(TeamName(f[i])), Lower(TeamName(f[j])))
                     \/ Lower(TeamName(f[i])) = Lower(TeamName(f[j])) /\ f[i] < f[j]

\* DraftOrder.objects.filter(draft=draft).order_by("position")
OrderRows(ord) ==
    CHOOSE f \in Orderings(ord) :
        \A i, j \in 1..Cardinality(ord) : i < j => f[i].position <= f[j].position

\* _get_base_order without the check that the positions are 1..N
BaseOrders_NoPositionCheck(omode, ord, T) ==
    CASE omode = "RANDOM" -> Orderings(T)
      [] omode = "ALPHA" -> {SortedAlpha(T)}
      [] omode = "MANUAL" ->
            IF Cardinality(ord) # Cardinality(T) THEN {}
            ELSE {[i \in 1..Cardinality(ord) |-> OrderRows(ord)[i].team]}
      [] OTHER -> {}

\* _get_base_order: the round-1 orders the call may return (random.shuffle
\* may return any of them), or the empty set when it raises ValueError
BaseOrders(omode, ord, T) ==
    CASE omode = "RANDOM" -> Orderings(T)
      [] omode = "ALPHA" -> {SortedAlpha(T)}
      [] omode = "MANUAL" ->
            IF Cardinality(ord) # Cardinality(T) THEN {}
            ELSE IF \E i \in 1..Cardinality(ord) : OrderRows(ord)[i].position # i THEN {}
            ELSE {[i \in 1..Cardinality(ord) |-> OrderRows(ord)[i].team]}
      [] OTHER -> {}

\* _teams_for_round reversing the odd rounds instead of the even ones
TeamsForRound_OddRoundsReversed(base_order, round_number, draft_type) ==
    IF draft_type = "LINEAR" THEN base_order
    ELSE IF round_number % 2 = 1 THEN Reversed(base_order)
    ELSE base_order

\* _teams_for_round
TeamsForRound(base_order, round_number, draft_type) ==
    IF draft_type = "LINEAR" THEN base_order
    ELSE IF round_number % 2 = 1 THEN base_order
    ELSE Reversed(base_order)

\* the build loop numbering each pick by its round
NewPick_NumberedByRound(team, round_number, pick_number) ==
    [ team |-> team, original_team |-> NoTeam, player |-> NoPlayer,
      round_number |-> round_number,
      pick_number |-> round_number, status |-> STATUS_UPCOMING,
      started_at |-> NoTime, made_at |-> NoTime ]

\* DraftPick(draft=draft, team=team, player=None, ...) of the build loop
NewPick(team, round_number, pick_number) ==
    [ team |-> team, original_team |-> NoTeam, player |-> NoPlayer,
      round_number |-> round_number,
      pick_number |-> pick_number, status |-> STATUS_UPCOMING,
      started_at |-> NoTime, made_at |-> NoTime ]

\* the build loop of create_or_rebuild_draft: the picks appended by rounds
\* 1..round_number, pick_number counting on from the rounds before
RECURSIVE BuildPicks(_, _, _)
BuildPicks(base_order, round_number, draft_type) ==
    IF round_number < 1 THEN <<>>
    ELSE
      LET before == BuildPicks(base_order, round_number - 1, draft_type)
          round_teams == TeamsForRound(base_order, round_number, draft_type)
      IN  before \o [i \in 1..Len(round_teams) |->
                        NewPick(round_teams[i], round_number, Len(before) + i)]

\* create_or_rebuild_draft without its "Need at least 2 teams" check
CreateOrRebuildDraft_NoTeamCountCheck(s, rounds, time_per_pick, base) ==
    IF rounds < MinRounds THEN RaiseAtomic(s, s, "ValueError")
    ELSE IF time_per_pick < MinTimePerPick THEN RaiseAtomic(s, s, "ValueError")
    ELSE
      LET d1 == [s.d EXCEPT !.rounds = rounds, !.time_per_pick = time_per_pick,
                            !.is_active = FALSE, !.is_completed = FALSE,
                            !.current_pick = 1, !.started_at = NoTime,
                            !.completed_at = NoTime, !.current_pick_started_at = NoTime]
          s1 == SaveDraft([s EXCEPT !.d = d1], AllDraftFields)
          s2 == [s1 EXCEPT !.picks = <<>>,
                           !.order = IF d1.order_mode # "MANUAL" THEN {} ELSE @]
      IN  IF base = <<>> THEN RaiseAtomic(s, s2, "ValueError")
          ELSE
            LET ord1 == IF d1.order_mode # "MANUAL"
                        THEN s2.order \cup
                             {[team |-> base[i], position |-> i] : i \in 1..Len(base)}
                        ELSE s2.order
            IN  Return([s2 EXCEPT !.order = ord1,
                                  !.picks = @ \o BuildPicks(base, d1.rounds, d1.draft_type)],
                       NoPick)

\* create_or_rebuild_draft without the wipe of the existing grid and order
CreateOrRebuildDraft_NoWipe(s, rounds, time_per_pick, base) ==
    IF rounds < MinRounds THEN RaiseAtomic(s, s, "ValueError")
    ELSE IF time_per_pick < MinTimePerPick THEN RaiseAtomic(s, s, "ValueError")
    ELSE
      LET d1 == [s.d EXCEPT !.rounds = rounds, !.time_per_pick = time_per_pick,
                            !.is_active = FALSE, !.is_completed = FALSE,
                            !.current_pick = 1, !.started_at = NoTime,
                            !.completed_at = NoTime, !.current_pick_started_at = NoTime]
          s1 == SaveDraft([s EXCEPT !.d = d1], AllDraftFields)
          s2 == s1
      IN  IF Cardinality(teams) < 2 THEN RaiseAtomic(s, s1, "ValueError")
          ELSE IF base = <<>> THEN RaiseAtomic(s, s2, "ValueError")
          ELSE
            LET ord1 == IF d1.order_mode # "MANUAL"
                        THEN s2.order \cup
                             {[team |-> base[i], position |-> i] : i \in 1..Len(base)}
                        ELSE s2.order
            IN  Return([s2 EXCEPT !.order = ord1,
                                  !.picks = @ \o BuildPicks(base, d1.rounds, d1.draft_type)],
                       NoPick)

\* create_or_rebuild_draft with the base order _get_base_order returned
\* (base is <<>> when _get_base_order raised)
CreateOrRebuildDraft(s, rounds, time_per_pick, base) ==
    IF rounds < MinRounds THEN RaiseAtomic(s, s, "ValueError")
    ELSE IF time_per_pick < MinTimePerPick THEN RaiseAtomic(s, s, "ValueError")
    ELSE
      LET d1 == [s.d EXCEPT !.rounds = rounds, !.time_per_pick = time_per_pick,
                            !.is_active = FALSE, !.is_completed = FALSE,
                            !.current_pick = 1, !.started_at = NoTime,
                            !.completed_at = NoTime, !.current_pick_started_at = NoTime]
          s1 == SaveDraft([s EXCEPT !.d = d1], AllDraftFields)
          s2 == [s1 EXCEPT !.picks = <<>>,
                           !.order = IF d1.order_mode # "MANUAL" THEN {} ELSE @]
      IN  IF Cardinality(teams) < 2 THEN RaiseAtomic(s, s1, "ValueError")
          ELSE IF base = <<>> THEN RaiseAtomic(s, s2, "ValueError")
          ELSE
            LET ord1 == IF d1.order_mode # "MANUAL"
                        THEN s2.order \cup
                             {[team |-> base[i], position |-> i] : i \in 1..Len(base)}
                        ELSE s2.order
            IN  Return([s2 EXCEPT !.order = ord1,
                                  !.picks = @ \o BuildPicks(base, d1.rounds, d1.draft_type)],
                       NoPick)

-----------------------------------------------------------------------------
(* Draft runtime *)

OnClock(pks) == {n \in DOMAIN pks : pks[n].status = STATUS_ON_CLOCK}

\* get_current_pick: the first ON_CLOCK row in the model's ordering
\* (round_number, pick_number), or None
GetCurrentPick(s) == IF OnClock(s.picks) = {} THEN NoPick ELSE Min(OnClock(s.picks))

\* _set_on_clock
SetOnClock(s, n, t) ==
    [s EXCEPT !.picks[n].status = STATUS_ON_CLOCK, !.picks[n].started_at = t]

\* is_pick_expired taking a pick that has used exactly its time as expired
IsPickExpired_AtLimit(d, t) ==
    IF d.current_pick_started_at = NoTime THEN FALSE
    ELSE (t - d.current_pick_started_at) >= d.time_per_pick

\* is_pick_expired
IsPickExpired(d, t) ==
    IF d.current_pick_started_at = NoTime THEN FALSE
    ELSE (t - d.current_pick_started_at) > d.time_per_pick

\* advance_to_next_pick completing the draft without clearing is_active
AdvanceToNextPick_StaysActive(s, t) ==
    LET next_number == s.d.current_pick + 1
        total_picks == s.d.rounds * Cardinality(teams)
    IN  IF next_number > total_picks
        THEN Return(SaveDraft([s EXCEPT !.d.is_completed = TRUE, !.d.completed_at = t],
                              {"is_completed", "is_active", "completed_at"}),
                    NoPick)
        ELSE
          LET s1 == SaveDraft([s EXCEPT !.d.current_pick = next_number,
                                        !.d.current_pick_started_at = t],
                              {"current_pick", "current_pick_started_at"})
          IN  IF next_number \notin DOMAIN s1.picks
              THEN RaiseAtomic(s, s1, "DoesNotExist")
              ELSE Return(SetOnClock(s1, next_number, t), next_number)

\* advance_to_next_pick starting the next clock at the time the previous
\* pick expired instead of timezone.now()
AdvanceToNextPick_ClockFromExpiry(s, t) ==
    LET next_number == s.d.current_pick + 1
        total_picks == s.d.rounds * Cardinality(teams)
        expiry == IF s.d.current_pick_started_at = NoTime THEN t
                  ELSE s.d.current_pick_started_at + s.d.time_per_pick
    IN  IF next_number > total_picks
        THEN Return(SaveDraft([s EXCEPT !.d.is_completed = TRUE, !.d.is_active = FALSE,
                                        !.d.completed_at = t],
                              {"is_completed", "is_active", "completed_at"}),
                    NoPick)
        ELSE
          LET s1 == SaveDraft([s EXCEPT !.d.current_pick = next_number,
                                        !.d.current_pick_started_at = expiry],
                              {"current_pick", "current_pick_started_at"})
          IN  IF next_number \notin DOMAIN s1.picks
              THEN RaiseAtomic(s, s1, "DoesNotExist")
              ELSE Return(SetOnClock(s1, next_number, expiry), next_number)

\* advance_to_next_pick completing the draft when the next pick is the last
\* one (next_number >= total_picks)
AdvanceToNextPick_CompletesAtLast(s, t) ==
    LET next_number == s.d.current_pick + 1
        total_picks == s.d.rounds * Cardinality(teams)
    IN  IF next_number >= total_picks
        THEN Return(SaveDraft([s EXCEPT !.d.is_completed = TRUE, !.d.is_active = FALSE,
                                        !.d.completed_at = t],
                              {"is_completed", "is_active", "completed_at"}),
                    NoPick)
        ELSE
          LET s1 == SaveDraft([s EXCEPT !.d.current_pick = next_number,
                                        !.d.current_pick_started_at = t],
                              {"current_pick", "current_pick_started_at"})
          IN  IF next_number \notin DOMAIN s1.picks
              THEN RaiseAtomic(s, s1, "DoesNotExist")
              ELSE Return(SetOnClock(s1, next_number, t), next_number)

\* advance_to_next_pick
AdvanceToNextPick(s, t) ==
    LET next_number == s.d.current_pick + 1
        total_picks == s.d.rounds * Cardinality(teams)
    IN  IF next_number > total_picks
        THEN Return(SaveDraft([s EXCEPT !.d.is_completed = TRUE, !.d.is_active = FALSE,
                                        !.d.completed_at = t],
                              {"is_completed", "is_active", "completed_at"}),
                    NoPick)
        ELSE
          LET s1 == SaveDraft([s EXCEPT !.d.current_pick = next_number,
                                        !.d.current_pick_started_at = t],
                              {"current_pick", "current_pick_started_at"})
          IN  IF next_number \notin DOMAIN s1.picks
              THEN RaiseAtomic(s, s1, "DoesNotExist")
              ELSE Return(SetOnClock(s1, next_number, t), next_number)

\* start_draft without its "Draft is already completed." check
StartDraft_NoCompletedCheck(s, t) ==
    IF s.picks = <<>> THEN RaiseAtomic(s, s, "ValueError")
    ELSE
      LET s1 == SaveDraft([s EXCEPT !.d.is_active = TRUE,
                                    !.d.started_at = IF s.d.started_at # NoTime
                                                     THEN s.d.started_at ELSE t,
                                    !.d.current_pick = 1,
                                    !.d.current_pick_started_at = t],
                          {"is_active", "started_at", "current_pick", "current_pick_started_at"})
      IN  Return(SetOnClock(s1, 1, t), 1)

\* start_draft stamping started_at on every call
StartDraft_ResetsStartedAt(s, t) ==
    IF s.d.is_completed THEN RaiseAtomic(s, s, "ValueError")
    ELSE IF s.picks = <<>> THEN RaiseAtomic(s, s, "ValueError")
    ELSE
      LET s1 == SaveDraft([s EXCEPT !.d.is_active = TRUE,
                                    !.d.started_at = t,
                                    !.d.current_pick = 1,
                                    !.d.current_pick_started_at = t],
                          {"is_active", "started_at", "current_pick", "current_pick_started_at"})
      IN  Return(SetOnClock(s1, 1, t), 1)

\* start_draft
StartDraft(s, t) ==
    IF s.d.is_completed THEN RaiseAtomic(s, s, "ValueError")
    ELSE IF s.picks = <<>> THEN RaiseAtomic(s, s, "ValueError")
    ELSE
      LET s1 == SaveDraft([s EXCEPT !.d.is_active = TRUE,
                                    !.d.started_at = IF s.d.started_at # NoTime
                                                     THEN s.d.started_at ELSE t,
                                    !.d.current_pick = 1,
                                    !.d.current_pick_started_at = t],
                          {"is_active", "started_at", "current_pick", "current_pick_started_at"})
      IN  Return(SetOnClock(s1, 1, t), 1)

\* Roster.objects.get_or_create(team=..., player=...)
RosterGetOrCreate(s, team, player) == [s EXCEPT !.roster = @ \cup {<<team, player>>}]

\* make_pick without its "Player already drafted." check
MakePickChecks_NoDraftedCheck(s, user, player_id) ==
    IF ~s.d.is_active \/ s.d.is_completed THEN "ValueError"
    ELSE IF GetCurrentPick(s) = NoPick THEN "ValueError"
    ELSE IF s.picks[GetCurrentPick(s)].team = NoTeam THEN "AttributeError"
    ELSE IF manager_id(s.picks[GetCurrentPick(s)].team) # user THEN "PermissionError"
    ELSE IF player_id \notin Players THEN "DoesNotExist"
    ELSE ""

\* make_pick without its "Not your pick." check
MakePickChecks_NoOwnerCheck(s, user, player_id) ==
    IF ~s.d.is_active \/ s.d.is_completed THEN "ValueError"
    ELSE IF GetCurrentPick(s) = NoPick THEN "ValueError"
    ELSE IF \E n \in DOMAIN s.picks : s.picks[n].player = player_id THEN "ValueError"
    ELSE IF player_id \notin Players THEN "DoesNotExist"
    ELSE ""

\* make_pick up to "player = Player.objects.get(id=player_id)": the exception
\* its checks raise, or "" when they all pass (current.team.manager_id raises
\* AttributeError when the team of the pick is None)
MakePickChecks(s, user, player_id) ==
    IF ~s.d.is_active \/ s.d.is_completed THEN "ValueError"
    ELSE IF GetCurrentPick(s) = NoPick THEN "ValueError"
    ELSE IF s.picks[GetCurrentPick(s)].team = NoTeam THEN "AttributeError"
    ELSE IF manager_id(s.picks[GetCurrentPick(s)].team) # user THEN "PermissionError"
    ELSE IF \E n \in DOMAIN s.picks : s.picks[n].player = player_id THEN "ValueError"
    ELSE IF player_id \notin Players THEN "DoesNotExist"
    ELSE ""

\* make_pick without the roster add
MakePickWrites_NoRosterAdd(s, t, current, player_id) ==
    LET s1 == [s EXCEPT !.picks[current].player = player_id,
                        !.picks[current].status = STATUS_MADE,
                        !.picks[current].made_at = t]
        adv == AdvanceToNextPick(s1, t)
    IN  IF adv.exc # "" THEN RaiseAtomic(s, adv.s, adv.exc)
        ELSE Return(adv.s, IF adv.ret # NoPick THEN adv.ret ELSE current)

\* make_pick from "current.player = player" on: current is the row that
\* get_current_pick returned
MakePickWrites(s, t, current, player_id) ==
    LET s1 == [s EXCEPT !.picks[current].player = player_id,
                        !.picks[current].status = STATUS_MADE,
                        !.picks[current].made_at = t]
        s2 == RosterGetOrCreate(s1, s.picks[current].team, player_id)
        adv == AdvanceToNextPick(s2, t)
    IN  IF adv.exc # "" THEN RaiseAtomic(s, adv.s, adv.exc)
        ELSE Return(adv.s, IF adv.ret # NoPick THEN adv.ret ELSE current)

\* make_pick going on to its writes without looking the player up among the
\* picks of the draft
MakePick_NoDraftedCheck(s, t, user, player_id) ==
    IF MakePickChecks_NoDraftedCheck(s, user, player_id) # ""
    THEN RaiseAtomic(s, s, MakePickChecks_NoDraftedCheck(s, user, player_id))
    ELSE MakePickWrites(s, t, GetCurrentPick(s), player_id)

\* make_pick
MakePick(s, t, user, player_id) ==
    IF MakePickChecks(s, user, player_id) # ""
    THEN RaiseAtomic(s, s, MakePickChecks(s, user, player_id))
    ELSE MakePickWrites(s, t, GetCurrentPick(s), player_id)

-----------------------------------------------------------------------------
(* Auto-pick *)

\* _infer_team_need
InferTeamNeed(rost, team) ==
    LET goalie_count == Cardinality({r \in rost : r[1] = team /\ IsGoalie(r[2])})
    IN  IF goalie_count < GoalieTarget THEN "G" ELSE "SKATER"

\* .order_by("-fantasy_score", "full_name").first() over the players of Q:
\* the rows no other row precedes (the database may return any of them when
\* two rows have the same score and name), or None when Q is empty
FirstRanked(Q) ==
    IF Q = {} THEN {NoPlayer}
    ELSE {p \in Q : \A q \in Q :
            \/ players[p].fantasy_score > players[q].fantasy_score
            \/ /\ players[p].fantasy_score = players[q].fantasy_score
               /\ ~StrLess(players[q].full_name, players[p].full_name)}

\* _best_available_player without the fall-back to the unrestricted pool
BestAvailablePlayer_NoFallback(s, preferred) ==
    LET drafted_ids == {s.picks[n].player : n \in DOMAIN s.picks} \ {NoPlayer}
        qs == {p \in Players : players[p].is_active /\ p \notin drafted_ids}
        qs_pref == CASE preferred = "G" -> {p \in qs : IsGoalie(p)}
                     [] preferred = "SKATER" -> {p \in qs : ~IsGoalie(p)}
                     [] OTHER -> qs
    IN  IF qs_pref # {} THEN FirstRanked(qs_pref) ELSE {NoPlayer}

\* _best_available_player: the players the call may return
BestAvailablePlayer(s, preferred) ==
    LET drafted_ids == {s.picks[n].player : n \in DOMAIN s.picks} \ {NoPlayer}
        qs == {p \in Players : players[p].is_active /\ p \notin drafted_ids}
        qs_pref == CASE preferred = "G" -> {p \in qs : IsGoalie(p)}
                     [] preferred = "SKATER" -> {p \in qs : ~IsGoalie(p)}
                     [] OTHER -> qs
    IN  IF qs_pref # {} THEN FirstRanked(qs_pref) ELSE FirstRanked(qs)

\* what _best_available_player may return to autopick_current on these rows
AutopickChoices(s) ==
    IF GetCurrentPick(s) = NoPick THEN {NoPlayer}
    ELSE BestAvailablePlayer(s, InferTeamNeed(s.roster, s.picks[GetCurrentPick(s)].team))

\* autopick_current raising when _best_available_player returns None
AutopickWrites_RaisesWithoutPlayer(s, t, current, player) ==
    IF player = NoPlayer THEN RaiseAtomic(s, s, "ValueError")
    ELSE IF s.picks[current].team = NoTeam THEN RaiseAtomic(s, s, "IntegrityError")
    ELSE
      LET s1 == RosterGetOrCreate(
                      [s EXCEPT !.picks[current].player = player,
                                !.picks[current].status = STATUS_AUTO,
                                !.picks[current].made_at = t],
                      s.picks[current].team, player)
      IN  CHOOSE res \in
            { IF adv.exc # "" THEN RaiseAtomic(s, adv.s, adv.exc)
              ELSE Return(adv.s, current) :
                    adv \in {AdvanceToNextPick(rows, t) : rows \in {s1}} } : TRUE

\* autopick_current without the roster add
AutopickWrites_NoRosterAdd(s, t, current, player) ==
    LET s1 == IF player = NoPlayer
              THEN [s EXCEPT !.picks[current].status = STATUS_AUTO,
                             !.picks[current].made_at = t]
              ELSE [s EXCEPT !.picks[current].player = player,
                             !.picks[current].status = STATUS_AUTO,
                             !.picks[current].made_at = t]
    IN  CHOOSE res \in
            { IF adv.exc # "" THEN RaiseAtomic(s, adv.s, adv.exc)
              ELSE Return(adv.s, current) :
                    adv \in {AdvanceToNextPick(rows, t) : rows \in {s1}} } : TRUE

\* autopick_current from "if player is None" on: current is the row that
\* get_current_pick returned, player what _best_available_player returned
\* (the rows after the writes and the result of advance_to_next_pick are each
\* computed once, as elements of a one-element set).  Roster.team is not
\* nullable: get_or_create(team=None, ...) raises IntegrityError
AutopickWrites(s, t, current, player) ==
    IF player # NoPlayer /\ s.picks[current].team = NoTeam
    THEN RaiseAtomic(s, s, "IntegrityError")
    ELSE
    LET s1 == IF player = NoPlayer
              THEN [s EXCEPT !.picks[current].status = STATUS_AUTO,
                             !.picks[current].made_at = t]
              ELSE RosterGetOrCreate(
                      [s EXCEPT !.picks[current].player = player,
                                !.picks[current].status = STATUS_AUTO,
                                !.picks[current].made_at = t],
                      s.picks[current].team, player)
    IN  CHOOSE res \in
            { IF adv.exc # "" THEN RaiseAtomic(s, adv.s, adv.exc)
              ELSE Return(adv.s, current) :
                    adv \in {AdvanceToNextPick(rows, t) : rows \in {s1}} } : TRUE

\* autopick_current, with the player _best_available_player returned
AutopickCurrent(s, t, player) ==
    IF GetCurrentPick(s) = NoPick THEN RaiseAtomic(s, s, "ValueError")
    ELSE AutopickWrites(s, t, GetCurrentPick(s), player)

\* the end of tick_draft going on to auto-pick the pick it has just put on
\* the clock as well
TickAfterAutopick_ResolvesNextToo(auto, t) ==
    IF auto.exc # "" THEN auto
    ELSE IF GetCurrentPick(auto.s) # NoPick
    THEN AutopickCurrent(auto.s, t, NoPlayer)
    ELSE IF auto.s.d.is_completed THEN Return(auto.s, NoPick)
    ELSE AdvanceToNextPick(auto.s, t)

\* the end of tick_draft, after autopick_current returned auto
TickAfterAutopick(auto, t) ==
    IF auto.exc # "" THEN auto
    ELSE IF GetCurrentPick(auto.s) # NoPick THEN Return(auto.s, GetCurrentPick(auto.s))
    ELSE IF auto.s.d.is_completed THEN Return(auto.s, NoPick)
    ELSE AdvanceToNextPick(auto.s, t)

\* tick_draft, with the player _best_available_player returns if it is called
TickDraft(s, t, player) ==
    IF ~s.d.is_active \/ s.d.is_completed THEN Return(s, NoPick)
    ELSE IF GetCurrentPick(s) = NoPick THEN AdvanceToNextPick(s, t)
    ELSE IF IsPickExpired(s.d, t)
    THEN CHOOSE res \in
            {TickAfterAutopick(auto, t) : auto \in {AutopickCurrent(s, t, player)}} : TRUE
    ELSE Return(s, GetCurrentPick(s))

-----------------------------------------------------------------------------
(* The computed clock of league/services/draft_engine.py *)

\* a DraftClock, or the exception the call ended with
NoClock(e) ==
    [exc |-> e, pick_number |-> NoPick, round_number |-> 0, pick_in_round |-> 0,
     team_id |-> NoTeam, team_name |-> <<>>]

\* _team_count
TeamCount(ord) == Cardinality(ord)

\* compute_round_pick: <<round_number, pick_in_round>>, or <<>> when it
\* raises ValidationError
ComputeRoundPick(d, ord, pick_number) ==
    IF ord = {} THEN <<>>
    ELSE
      LET n == TeamCount(ord)
          p == IF pick_number # 0 THEN pick_number ELSE d.current_pick
      IN  IF n < 2 THEN <<>>
          ELSE IF p < 1 THEN <<>>
          ELSE <<((p - 1) \div n) + 1, ((p - 1) % n) + 1>>

\* DraftOrder.objects.get(draft=draft, position=pos): the rows it finds
OrderRowsAt(ord, pos) == {r \in ord : r.position = pos}

\* _team_for_linear
TeamForLinear(ord, round_number, pick_in_round) == OrderRowsAt(ord, pick_in_round)

\* _team_for_snake reading every round in base order
TeamForSnake_NoReversal(ord, round_number, pick_in_round, n) ==
    OrderRowsAt(ord, pick_in_round)

\* _team_for_snake
TeamForSnake(ord, round_number, pick_in_round, n) ==
    IF round_number % 2 = 1 THEN OrderRowsAt(ord, pick_in_round)
    ELSE OrderRowsAt(ord, (n - pick_in_round) + 1)

\* get_current_clock on the Draft object d
GetCurrentClock(d, ord) ==
    IF ord = {} THEN NoClock("ValidationError")
    ELSE IF ComputeRoundPick(d, ord, d.current_pick) = <<>> THEN NoClock("ValidationError")
    ELSE
      LET n == TeamCount(ord)
          rp == ComputeRoundPick(d, ord, d.current_pick)
          round_number == IF rp[1] > d.rounds THEN d.rounds ELSE rp[1]
          pick_in_round == IF rp[1] > d.rounds THEN n ELSE rp[2]
          rows == IF d.draft_type = "LINEAR"
                  THEN TeamForLinear(ord, round_number, pick_in_round)
                  ELSE TeamForSnake(ord, round_number, pick_in_round, n)
      IN  IF rows = {} THEN NoClock("DoesNotExist")
          ELSE IF Cardinality(rows) > 1 THEN NoClock("MultipleObjectsReturned")
          ELSE LET order_row == CHOOSE r \in rows : TRUE
               IN  [exc |-> "", pick_number |-> d.current_pick,
                    round_number |-> round_number, pick_in_round |-> pick_in_round,
                    team_id |-> order_row.team, team_name |-> TeamName(order_row.team)]

-----------------------------------------------------------------------------
(* The state machine: one service call per step, each on a freshly loaded
   Draft object, as the views and admin actions make them *)

Procs == 1..NumProcs

\* A web request: the Draft object it loaded (d), what it asked for, the pick
\* that was ON_CLOCK when it loaded the draft (seen), the row get_current_pick
\* returned inside its transaction (current), the player
\* _best_available_player returned (player), the exception it ended with and
\* the pick it resolved
IdleReq == [pc |-> "idle", op |-> "", d |-> NewDraft("", ""), user |-> 0,
            player_id |-> NoPlayer, seen |-> NoPick, current |-> NoPick,
            player |-> NoPlayer, exc |-> "", resolved |-> NoPick]

\* the DraftOrder rows a commissioner may have stored before a MANUAL build
ManualOrders(T) ==
    { {[team |-> t, position |-> t] : t \in T},
      {},
      {[team |-> Min(T), position |-> 1]},
      {[team |-> t, position |-> 2 * t - 1] : t \in T} }

Init ==
    /\ teams \in {1..k : k \in 1..MaxTeams}
    /\ \E dtype \in {"SNAKE", "LINEAR"}, omode \in {"RANDOM", "ALPHA", "MANUAL", "BOGUS"} :
            draft = NewDraft(dtype, omode)
    /\ order \in (IF draft.order_mode = "MANUAL" THEN ManualOrders(teams) ELSE {{}})
    /\ picks = <<>>
    /\ roster = {}
    /\ players = PlayerTable
    /\ now = 0
    /\ last = [op |-> "", exc |-> ""]
    /\ calls = [build |-> 0, start |-> 0]
    /\ reqs = [p \in Procs |-> IdleReq]

\* the stored rows after a call
StoreRows(res) ==
    /\ draft' = res.s.draft
    /\ order' = res.s.order
    /\ picks' = res.s.picks
    /\ roster' = res.s.roster

\* the stored rows after a call, and how the call ended
Store(res, op) ==
    /\ StoreRows(res)
    /\ last' = [op |-> op, exc |-> res.exc]
    /\ calls' = IF res.exc # "" THEN calls
                ELSE IF op = "create_or_rebuild_draft" THEN [calls EXCEPT !.build = @ + 1]
                ELSE IF op = "start_draft" THEN [calls EXCEPT !.start = @ + 1]
                ELSE calls

Build ==
    /\ calls.build < MaxBuilds
    /\ \E rounds \in 0..MaxRounds, time_per_pick \in {MinTimePerPick - 1, MinTimePerPick} :
      LET bases == BaseOrders(draft.order_mode, order, teams)
      IN  \E base \in (IF bases = {} THEN {<<>>} ELSE bases) :
                Store(CreateOrRebuildDraft(Rows(draft), rounds, time_per_pick, base),
                      "create_or_rebuild_draft")
    /\ UNCHANGED <<teams, players, now, reqs>>

Start ==
    /\ calls.start < MaxStarts
    /\ Store(StartDraft(Rows(draft), now), "start_draft")
    /\ UNCHANGED <<teams, players, now, reqs>>

Tick ==
    /\ \E player \in AutopickChoices(Rows(draft)) :
        \E res \in {TickDraft(Rows(draft), now, player)} :
            Store(res, "tick_draft")
    /\ UNCHANGED <<teams, players, now, reqs>>

Pick ==
    /\ \E user \in Users, player_id \in Players \cup {UnknownPlayer} :
            Store(MakePick(Rows(draft), now, user, player_id), "make_pick")
    /\ UNCHANGED <<teams, players, now, reqs>>

\* the wall clock moves on between calls (shown while the draft is active:
\* no call reads the clock of a draft that is not)
PassTime ==
    /\ draft.is_active
    /\ \E dt \in {MinTimePerPick, MinTimePerPick + 1} :
            /\ now + dt <= MaxTime
            /\ now' = now + dt
    /\ UNCHANGED <<draft, order, picks, roster, teams, players, last, calls, reqs>>

Next == Build \/ Start \/ Tick \/ Pick \/ PassTime

Spec == Init /\ [][Next]_vars

-----------------------------------------------------------------------------
(* Concurrent requests on a started draft.

   draft_room loads the Draft row, and make_pick / tick_draft then work on
   that object.  No call locks a row (there is no select_for_update in
   league/draft/services.py), so under the database's READ COMMITTED isolation
   a transaction's reads see what was committed before them, and its writes
   become visible together at commit: a request is a load, a step of reads and
   a step of writes, and the steps of different requests interleave. *)

\* the rows after create_or_rebuild_draft and start_draft at time 0
StartedRows(dtype) ==
    LET d0 == NewDraft(dtype, "ALPHA")
        built == CreateOrRebuildDraft(
                    [d |-> d0, draft |-> d0, order |-> {}, picks |-> <<>>, roster |-> {}],
                    MaxRounds, MinTimePerPick, SortedAlpha(teams))
    IN  StartDraft(built.s, 0).s

InitConc ==
    /\ teams = AllTeams
    /\ \E dtype \in {"SNAKE", "LINEAR"} :
            /\ draft = StartedRows(dtype).draft
            /\ order = StartedRows(dtype).order
            /\ picks = StartedRows(dtype).picks
    /\ roster = {}
    /\ players = PlayerTable
    /\ now = 0
    /\ last = [op |-> "start_draft", exc |-> ""]
    /\ calls = [build |-> 1, start |-> 1]
    /\ reqs = [p \in Procs |-> IdleReq]

\* draft = Draft.objects.filter(league=league).first() in draft_room
Arrive(p) ==
    /\ reqs[p].pc = "idle"
    /\ \/ \E user \in Users, player_id \in Players :
            reqs' = [reqs EXCEPT ![p] = [IdleReq EXCEPT !.pc = "loaded", !.op = "make_pick",
                                            !.d = draft, !.user = user, !.player_id = player_id,
                                            !.seen = GetCurrentPick(Rows(draft))]]
       \/ reqs' = [reqs EXCEPT ![p] = [IdleReq EXCEPT !.pc = "loaded", !.op = "tick_draft",
                                            !.d = draft, !.seen = GetCurrentPick(Rows(draft))]]
    /\ UNCHANGED <<draft, order, picks, roster, teams, players, now, last, calls>>

\* how request p ends: the object it holds, its exception, the pick it resolved
Done(p, res, resolved) ==
    reqs' = [reqs EXCEPT ![p].pc = "done", ![p].d = res.s.d, ![p].exc = res.exc,
                         ![p].resolved = IF res.exc = "" THEN resolved ELSE NoPick]

\* make_pick: the checks and get_current_pick
MakePickRead(p) ==
    /\ reqs[p].pc = "loaded" /\ reqs[p].op = "make_pick"
    /\ LET s == Rows(reqs[p].d)
           e == MakePickChecks(s, reqs[p].user, reqs[p].player_id)
       IN  IF e # ""
           THEN /\ Done(p, RaiseAtomic(s, s, e), NoPick)
                /\ last' = [op |-> "make_pick", exc |-> e]
           ELSE /\ reqs' = [reqs EXCEPT ![p].pc = "checked", ![p].current = GetCurrentPick(s)]
                /\ last' = last
    /\ UNCHANGED <<draft, order, picks, roster, teams, players, now, calls>>

\* make_pick: the writes of the pick, the roster and advance_to_next_pick
MakePickWrite(p) ==
    /\ reqs[p].pc = "checked" /\ reqs[p].op = "make_pick"
    /\ LET res == MakePickWrites(Rows(reqs[p].d), now, reqs[p].current, reqs[p].player_id)
       IN  /\ Store(res, "make_pick")
           /\ Done(p, res, reqs[p].current)
    /\ UNCHANGED <<teams, players, now>>

\* tick_draft up to the reads of autopick_current
TickRead(p) ==
    /\ reqs[p].pc = "loaded" /\ reqs[p].op = "tick_draft"
    /\ LET s == Rows(reqs[p].d)
       IN  IF (~s.d.is_active \/ s.d.is_completed)
                \/ (GetCurrentPick(s) # NoPick /\ ~IsPickExpired(s.d, now))
           THEN /\ Done(p, TickDraft(s, now, NoPlayer), NoPick)
                /\ last' = [op |-> "tick_draft", exc |-> ""]
                /\ UNCHANGED <<draft, order, picks, roster, calls>>
           ELSE IF GetCurrentPick(s) = NoPick
           THEN /\ Store(TickDraft(s, now, NoPlayer), "tick_draft")
                /\ Done(p, TickDraft(s, now, NoPlayer), NoPick)
           ELSE /\ \E player \in AutopickChoices(s) :
                        reqs' = [reqs EXCEPT ![p].pc = "checked",
                                             ![p].current = GetCurrentPick(s),
                                             ![p].player = player]
                /\ UNCHANGED <<draft, order, picks, roster, last, calls>>
    /\ UNCHANGED <<teams, players, now>>

\* tick_draft: the writes of autopick_current and the end of tick_draft
TickWrite(p) ==
    /\ reqs[p].pc = "checked" /\ reqs[p].op = "tick_draft"
    /\ LET res == TickAfterAutopick(
                    AutopickWrites(Rows(reqs[p].d), now, reqs[p].current, reqs[p].player), now)
       IN  /\ Store(res, "tick_draft")
           /\ Done(p, res, reqs[p].current)
    /\ UNCHANGED <<teams, players, now>>

NextConc ==
    \/ \E p \in Procs : Arrive(p)
    \/ \E p \in Procs : MakePickRead(p)
    \/ \E p \in Procs : MakePickWrite(p)
    \/ \E p \in Procs : TickRead(p)
    \/ \E p \in Procs : TickWrite(p)
    \/ PassTime

SpecConc == InitConc /\ [][NextConc]_vars

-----------------------------------------------------------------------------
(* Building the grid.

   create_or_rebuild_draft, start_draft and the commissioner's edits of the
   DraftOrder rows, on leagues of up to MaxBuildTeams teams.  The wall clock
   stands still. *)

MaxBuildTeams == 4

\* Team.objects.filter(league=...).order_by("id")
TeamsById(T) ==
    CHOOSE f \in Orderings(T) : \A i, j \in 1..Cardinality(T) : i < j => f[i] < f[j]

\* the DraftOrder rows an administrator may have stored before a MANUAL
\* build: ManualOrders, and the rows at positions 1, 2, 2, 4, ... that a
\* table without uniq_draft_order_position holds
StoredOrders(T) ==
    ManualOrders(T) \cup {{[team |-> t, position |-> IF t = 3 THEN 2 ELSE t] : t \in T}}

InitBuild ==
    /\ teams \in {1..k : k \in 1..MaxBuildTeams}
    /\ \E dtype \in {"SNAKE", "LINEAR"}, omode \in {"RANDOM", "ALPHA", "MANUAL", "BOGUS"} :
            draft = NewDraft(dtype, omode)
    /\ order \in (IF draft.order_mode = "MANUAL" THEN StoredOrders(teams) ELSE {{}})
    /\ picks = <<>>
    /\ roster = {}
    /\ players = PlayerTable
    /\ now = 0
    /\ last = [op |-> "", exc |-> ""]
    /\ calls = [build |-> 0, start |-> 0]
    /\ reqs = [p \in Procs |-> IdleReq]

\* create_or_rebuild_draft (_get_base_order is not reached with a bad
\* config); last keeps the DraftCreateConfig of the call
BuildGrid ==
    /\ \E rounds \in 0..MaxRounds, time_per_pick \in {MinTimePerPick - 1, MinTimePerPick} :
      LET bases == IF rounds < MinRounds \/ time_per_pick < MinTimePerPick
                   THEN {}
                   ELSE BaseOrders(draft.order_mode, order, teams)
      IN  \E base \in (IF bases = {} THEN {<<>>} ELSE bases) :
            LET res == CreateOrRebuildDraft(Rows(draft), rounds, time_per_pick, base)
            IN  /\ StoreRows(res)
                /\ last' = [op |-> "create_or_rebuild_draft", exc |-> res.exc,
                            rounds |-> rounds, time_per_pick |-> time_per_pick]
    /\ UNCHANGED <<teams, players, now, calls, reqs>>

\* commish_manual_draft_order, a POST that names every team once
ManualOrder ==
    /\ ~draft.is_active
    /\ Cardinality(teams) >= 2
    /\ \E new_teams \in {TeamsById(teams), Reversed(TeamsById(teams))} :
            order' = {[team |-> new_teams[i], position |-> i] : i \in 1..Len(new_teams)}
    /\ draft' = [draft EXCEPT !.order_mode = "MANUAL"]
    /\ last' = [op |-> "commish_manual_draft_order", exc |-> ""]
    /\ UNCHANGED <<picks, roster, teams, players, now, calls, reqs>>

\* DraftOrderAdmin, "delete selected" on every row of the draft
DeleteOrderRows ==
    /\ order # {}
    /\ order' = {}
    /\ last' = [op |-> "delete_selected", exc |-> ""]
    /\ UNCHANGED <<draft, picks, roster, teams, players, now, calls, reqs>>

\* start_draft
StartGrid ==
    /\ StoreRows(StartDraft(Rows(draft), now))
    /\ last' = [op |-> "start_draft", exc |-> StartDraft(Rows(draft), now).exc]
    /\ UNCHANGED <<teams, players, now, calls, reqs>>

NextBuild == BuildGrid \/ ManualOrder \/ DeleteOrderRows \/ StartGrid

SpecBuild == InitBuild /\ [][NextBuild]_vars

-----------------------------------------------------------------------------
(* A started draft that is ticked as time advances.

   The draft room calls tick_draft on every GET and managers may submit
   picks; the wall clock moves on in steps of time_per_pick while the pick on
   the clock has not expired (after one step the pick has used exactly its
   time, after two it has expired), and a tick follows each expiry before
   the clock moves further.  Weak fairness on Tick and on the clock states
   that ticks keep being made and that time does not stop.  Any user who
   has no team in the league may create one meanwhile. *)

\* the longest a draft of MaxRounds rounds can take when each expired pick is
\* ticked: every pick runs for two steps of the clock
MaxLiveTime == MaxRounds * MaxTeams * (2 * MinTimePerPick)

InitLive ==
    /\ teams = AllTeams
    /\ \E dtype \in {"SNAKE", "LINEAR"} :
            /\ draft = StartedRows(dtype).draft
            /\ order = StartedRows(dtype).order
            /\ picks = StartedRows(dtype).picks
    /\ roster = {}
    /\ players = PlayerTable
    /\ now = 0
    /\ last = [op |-> "start_draft", exc |-> ""]
    /\ calls = [build |-> 1, start |-> 1]
    /\ reqs = [p \in Procs |-> IdleReq]

\* the wall clock moves on while the current pick has not expired
PassTimeLive ==
    /\ draft.is_active
    /\ ~IsPickExpired(draft, now)
    /\ now + draft.time_per_pick <= MaxLiveTime
    /\ now' = now + draft.time_per_pick
    /\ UNCHANGED <<draft, order, picks, roster, teams, players, last, calls, reqs>>

\* create_team: a user who manages no team of the league creates one
CreateTeam ==
    /\ \E user \in Users :
            /\ \A t \in teams : manager_id(t) # user
            /\ teams' = teams \cup {user}
    /\ last' = [op |-> "create_team", exc |-> ""]
    /\ UNCHANGED <<draft, order, picks, roster, players, now, calls, reqs>>

NextLive == Tick \/ Pick \/ PassTimeLive \/ CreateTeam

SpecLive ==
    /\ InitLive /\ [][NextLive]_vars
    /\ WF_vars(Tick) /\ WF_vars(PassTimeLive)

\* C11: a started draft eventually completes when tick_draft keeps being
\* called as time advances, whether or not managers submit picks and also
\* when no eligible player remains.
C11_StartedDraftEventuallyCompletes ==
    draft.is_active ~> draft.is_completed

-----------------------------------------------------------------------------
(* Properties of the draft runtime *)

Resolved(pk) == pk.status \in {STATUS_MADE, STATUS_AUTO}

RuntimeOps == {"start_draft", "tick_draft", "make_pick"}

\* C1: while the draft is active, exactly one pick has status ON_CLOCK.
C1_ExactlyOneOnClockWhileActive ==
    draft.is_active => Cardinality(OnClock(picks)) = 1

\* C2: in every state of a draft at most one pick has status ON_CLOCK; in
\* particular a start_draft call never leaves two picks ON_CLOCK.
C2_AtMostOneOnClock ==
    Cardinality(OnClock(picks)) <= 1

\* C3: no player is the player of two different picks of the draft.
C3_NoPlayerOnTwoPicks ==
    \A m, n \in DOMAIN picks :
        (m # n /\ picks[m].player # NoPlayer) => picks[m].player # picks[n].player

\* C3 witness: a manual pick and an auto-pick have both assigned a player.
C3_Witness ==
    \E m, n \in DOMAIN picks :
        /\ picks[m].status = STATUS_MADE /\ picks[m].player # NoPlayer
        /\ picks[n].status = STATUS_AUTO /\ picks[n].player # NoPlayer

\* C6: picks are resolved in ascending pick number: below the ON_CLOCK pick
\* every pick is MADE or AUTO, above it every pick is UPCOMING.
C6_ResolvedBelowUpcomingAbove ==
    \A n \in OnClock(picks) :
        \A m \in DOMAIN picks :
            /\ m < n => Resolved(picks[m])
            /\ m > n => picks[m].status = STATUS_UPCOMING

\* C7: MADE and AUTO are terminal: no runtime operation changes the status
\* or the player of a pick that is MADE or AUTO.
C7_ResolvedPickNeverChanges ==
    [][ last'.op \in RuntimeOps =>
            \A n \in DOMAIN picks :
                Resolved(picks[n]) =>
                    /\ n \in DOMAIN picks'
                    /\ picks'[n].status = picks[n].status
                    /\ picks'[n].player = picks[n].player ]_vars

\* C8: is_active and is_completed are never both true.
C8_NotActiveAndCompleted ==
    ~(draft.is_active /\ draft.is_completed)

\* C8 witness: start_draft was called on a completed draft.
C8_Witness ==
    /\ draft.is_completed
    /\ last.op = "start_draft"

\* C9: while the draft is active no runtime operation stores a lower
\* current_pick than the stored one.
C9_CurrentPickNeverDecreases ==
    [][ (draft.is_active /\ last'.op \in RuntimeOps) =>
            draft'.current_pick >= draft.current_pick ]_vars

\* C10: completion is terminal: when the last pick is resolved the draft is
\* completed and not active, and on a completed draft every tick_draft,
\* make_pick and start_draft call leaves the draft and the picks unchanged.
C10_CompletionIsTerminal ==
    /\ [](picks # <<>> /\ Resolved(picks[Len(picks)])
            => draft.is_completed /\ ~draft.is_active)
    /\ [][ (draft.is_completed /\ last'.op \in RuntimeOps) =>
                (draft' = draft /\ picks' = picks /\ roster' = roster) ]_vars

\* C10 witness: the last pick is resolved and a make_pick call made after
\* completion has failed.
C10_Witness ==
    /\ picks # <<>> /\ Resolved(picks[Len(picks)])
    /\ draft.is_completed
    /\ last.op = "make_pick" /\ last.exc = "ValueError"

-----------------------------------------------------------------------------
(* Properties of concurrent requests *)

\* C4: a make_pick and an expiry-triggered autopick_current that both got
\* the same ON_CLOCK pick from get_current_pick: exactly one of them resolves
\* that pick, the other ends with an error and resolves nothing.
C4_ExactlyOneOfPickAndAutopickResolves ==
    \A p, q \in Procs :
        ( /\ reqs[p].pc = "done" /\ reqs[p].op = "make_pick"
          /\ reqs[q].pc = "done" /\ reqs[q].op = "tick_draft"
          /\ reqs[p].current # NoPick /\ reqs[p].current = reqs[q].current )
        => \/ /\ reqs[p].resolved = reqs[p].current
              /\ reqs[q].exc # "" /\ reqs[q].resolved = NoPick
           \/ /\ reqs[q].resolved = reqs[q].current
              /\ reqs[p].exc # "" /\ reqs[p].resolved = NoPick

\* C5: concurrent make_pick calls never both resolve the same pick, and
\* current_pick has advanced by exactly one for each pick they resolved.
C5_PicksSerializedPerDraft ==
    (\A p \in Procs : reqs[p].op \in {"", "make_pick"}) =>
        /\ \A p, q \in Procs :
              (p # q /\ reqs[p].resolved # NoPick) => reqs[p].resolved # reqs[q].resolved
        /\ ~draft.is_completed =>
              draft.current_pick = 1 + Cardinality({p \in Procs : reqs[p].resolved # NoPick})

-----------------------------------------------------------------------------
(* Properties of the grid builder *)

\* the last call was a create_or_rebuild_draft that returned
BuiltOk == last.op = "create_or_rebuild_draft" /\ last.exc = ""

\* the last call was a create_or_rebuild_draft that raised
BuildFailed == last.op = "create_or_rebuild_draft" /\ last.exc # ""

\* the base order the DraftOrder rows hold: the team at each position
BaseOf(ord) == [i \in 1..Cardinality(ord) |-> (CHOOSE r \in ord : r.position = i).team]

C13_SnakeReversesEvenRounds ==
    BuiltOk =>
        LET n == Cardinality(teams)
            base == BaseOf(order)
            team(r, i) == picks[(r - 1) * n + i].team
        IN  /\ \A r \in 1..last.rounds : \A i \in 1..n :
                    team(r, i) = IF draft.draft_type = "LINEAR" \/ r % 2 = 1
                                 THEN base[i] ELSE base[n - i + 1]
            /\ draft.draft_type = "SNAKE" =>
                    \A r \in 1..(last.rounds - 1) : \A i \in 1..n :
                        team(r + 1, i) = team(r, n - i + 1)

\* C13 witness: 4 teams in ALPHA order ("av", "Br", "Ca", "Du"), SNAKE,
\* 2 rounds: picks 1..8 belong to A,B,C,D,D,C,B,A.
C13_Witness ==
    /\ BuiltOk
    /\ draft.order_mode = "ALPHA" /\ draft.draft_type = "SNAKE"
    /\ Cardinality(teams) = 4 /\ last.rounds = 2
    /\ [i \in DOMAIN picks |-> picks[i].team] = <<2, 1, 3, 4, 4, 3, 1, 2>>

OnePerPosition(ord, T) ==
    /\ Cardinality(ord) = Cardinality(T)
    /\ \A i \in 1..Cardinality(T) : Cardinality({r \in ord : r.position = i}) = 1

\* C15: with order_mode MANUAL, a create_or_rebuild_draft call on DraftOrder
\* rows that are not exactly one row per position 1..teamCount raises
\* ValueError and creates no picks: the picks and the DraftOrder rows are
\* those of before the call.
C15_ManualOrderMustBeOnePerPosition ==
    [][ ( /\ last'.op = "create_or_rebuild_draft"
          /\ draft.order_mode = "MANUAL"
          /\ ~OnePerPosition(order, teams) )
        => ( /\ last'.exc = "ValueError"
             /\ picks' = picks
             /\ order' = order ) ]_vars

\* C15 witness: a MANUAL build of 4 teams with a valid config has failed on
\* rows at positions 1, 2, 2, 4.
C15_Witness ==
    /\ BuildFailed
    /\ last.rounds >= MinRounds /\ last.time_per_pick >= MinTimePerPick
    /\ draft.order_mode = "MANUAL"
    /\ Cardinality(teams) = 4 /\ Cardinality(order) = 4
    /\ {r.position : r \in order} = {1, 2, 4}
    /\ picks = <<>>

\* C16: create_or_rebuild_draft is all-or-nothing: when a call raises, the
\* stored Draft fields, DraftOrder rows and DraftPick rows are exactly those
\* of before the call.
C16_FailedBuildChangesNothing ==
    [][ (last'.op = "create_or_rebuild_draft" /\ last'.exc # "")
        => (draft' = draft /\ order' = order /\ picks' = picks) ]_vars

\* C16 witness: a rebuild of a started draft with a valid config has failed
\* in _get_base_order, after the Draft fields were reset and saved and the
\* picks deleted; the draft is still active with its grid.
C16_Witness ==
    /\ BuildFailed
    /\ last.rounds >= MinRounds /\ last.time_per_pick >= MinTimePerPick
    /\ Cardinality(teams) >= 2
    /\ draft.is_active /\ draft.started_at # NoTime
    /\ OnClock(picks) # {}

\* C19: create_or_rebuild_draft raises ValueError and builds nothing (the
\* stored draft, order and picks stay as they were) when the league has fewer
\* than 2 teams, when rounds < 1, when time_per_pick < 5, or when order_mode
\* is not RANDOM, ALPHA or MANUAL.
C19_BadConfigurationIsRefused ==
    [][ ( /\ last'.op = "create_or_rebuild_draft"
          /\ \/ Cardinality(teams) < 2
             \/ last'.rounds < 1
             \/ last'.time_per_pick < 5
             \/ draft.order_mode \notin {"RANDOM", "ALPHA", "MANUAL"} )
        => ( /\ last'.exc = "ValueError"
             /\ draft' = draft /\ order' = order /\ picks' = picks ) ]_vars

\* C19 witness: a build with a valid config for a league of one team has
\* failed.
C19_Witness ==
    /\ BuildFailed /\ last.exc = "ValueError"
    /\ last.rounds >= 1 /\ last.time_per_pick >= 5
    /\ draft.order_mode \in {"RANDOM", "ALPHA"}
    /\ Cardinality(teams) = 1
    /\ picks = <<>>

-----------------------------------------------------------------------------
(* Properties of rebuilding a draft that has run *)

\* C17: once a pick of the draft is MADE or AUTO, a plain
\* create_or_rebuild_draft call does not delete or replace the resolved picks.
C17_RebuildKeepsResolvedPicks ==
    [][ last'.op = "create_or_rebuild_draft" =>
            \A n \in DOMAIN picks :
                Resolved(picks[n]) => (n \in DOMAIN picks' /\ picks'[n] = picks[n]) ]_vars

\* C18: a successful create_or_rebuild_draft replaces the grid and resets the
\* draft: current_pick = 1, started_at, completed_at and
\* current_pick_started_at are empty, is_active and is_completed are false,
\* the picks are only those of the new grid (rounds * teamCount rows, none of
\* them started, resolved or holding a player), and the DraftOrder rows are
\* those of the new base order, or the stored ones when order_mode is MANUAL.
C18_BuildReplacesGridAndResetsDraft ==
    [][ (last'.op = "create_or_rebuild_draft" /\ last'.exc = "") =>
            /\ draft'.current_pick = 1
            /\ draft'.started_at = NoTime
            /\ draft'.completed_at = NoTime
            /\ draft'.current_pick_started_at = NoTime
            /\ ~draft'.is_active /\ ~draft'.is_completed
            /\ Len(picks') = draft'.rounds * Cardinality(teams)
            /\ \A n \in DOMAIN picks' :
                    /\ picks'[n].status = STATUS_UPCOMING
                    /\ picks'[n].player = NoPlayer
                    /\ picks'[n].started_at = NoTime
                    /\ picks'[n].made_at = NoTime
            /\ IF draft.order_mode = "MANUAL" THEN order' = order
               ELSE order' = {[team |-> picks'[i].team, position |-> i] :
                                    i \in 1..Cardinality(teams)} ]_vars

\* C18 witness: a draft that was started and had picks resolved (the rosters
\* show them) has been rebuilt.
C18_Witness ==
    /\ last.op = "create_or_rebuild_draft" /\ last.exc = ""
    /\ roster # {}
    /\ calls.build = MaxBuilds
    /\ picks # <<>>

-----------------------------------------------------------------------------
(* The draft room.

   start_draft, tick_draft and make_pick called one after another on a league
   of MaxTeams teams whose grid is built or not, each call on a freshly loaded
   Draft object.  `last` keeps the arguments and the result of the call.
   Team 1 has player 3 on its roster from before the draft (a Roster row is
   not bound to a draft).  The
   wall clock moves on while the pick on the clock has not expired, by
   time_per_pick (the pick has then used exactly its time) or by one second
   more (it has expired). *)

\* two picks can expire before the wall clock stops
MaxRunTime == 2 * (MinTimePerPick + 1)

\* the rows after create_or_rebuild_draft
BuiltRows(dtype) ==
    LET d0 == NewDraft(dtype, "ALPHA")
    IN  CreateOrRebuildDraft(
            [d |-> d0, draft |-> d0, order |-> {}, picks |-> <<>>, roster |-> {}],
            MaxRounds, MinTimePerPick, SortedAlpha(teams)).s

\* a service call, its arguments and how it ended
Call(op, res, user, player_id) ==
    [op |-> op, exc |-> res.exc, ret |-> res.ret, user |-> user, player_id |-> player_id]

InitRun ==
    /\ teams = AllTeams
    /\ \E dtype \in {"SNAKE", "LINEAR"} :
            \/ /\ draft = NewDraft(dtype, "ALPHA")
               /\ order = {}
               /\ picks = <<>>
            \/ /\ draft = BuiltRows(dtype).draft
               /\ order = BuiltRows(dtype).order
               /\ picks = BuiltRows(dtype).picks
    /\ roster = {<<1, 3>>}
    /\ players = PlayerTable
    /\ now = 0
    /\ last = [op |-> "", exc |-> "", ret |-> NoPick, user |-> 0, player_id |-> NoPlayer]
    /\ calls = [build |-> 0, start |-> 0]
    /\ reqs = [p \in Procs |-> IdleReq]

\* commish_draft_start, action_start_draft
RunStart ==
    /\ calls.start < MaxStarts
    /\ \E res \in {StartDraft(Rows(draft), now)} :
            /\ StoreRows(res)
            /\ last' = Call("start_draft", res, 0, NoPlayer)
            /\ calls' = IF res.exc = "" THEN [calls EXCEPT !.start = @ + 1] ELSE calls
    /\ UNCHANGED <<teams, players, now, reqs>>

\* tick_draft
RunTick ==
    /\ \E player \in AutopickChoices(Rows(draft)) :
        \E res \in {TickDraft(Rows(draft), now, player)} :
            /\ StoreRows(res)
            /\ last' = Call("tick_draft", res, 0, NoPlayer)
    /\ UNCHANGED <<teams, players, now, calls, reqs>>

\* make_pick
RunPick ==
    /\ \E user \in Users, player_id \in Players \cup {UnknownPlayer} :
        \E res \in {MakePick(Rows(draft), now, user, player_id)} :
            /\ StoreRows(res)
            /\ last' = Call("make_pick", res, user, player_id)
    /\ UNCHANGED <<teams, players, now, calls, reqs>>

\* the wall clock moves on while the current pick has not expired
RunPassTime ==
    /\ draft.is_active
    /\ ~IsPickExpired(draft, now)
    /\ \E dt \in {draft.time_per_pick, draft.time_per_pick + 1} :
            /\ now + dt <= MaxRunTime
            /\ now' = now + dt
    /\ UNCHANGED <<draft, order, picks, roster, teams, players, last, calls, reqs>>

NextRun == RunStart \/ RunTick \/ RunPick \/ RunPassTime

SpecRun == InitRun /\ [][NextRun]_vars

-----------------------------------------------------------------------------
(* Properties of the calls of the draft room *)

\* the step is a call of op (the wall clock stands still during a call)
CallOf(op) == last'.op = op /\ now' = now

\* the step changes no Draft field, no pick and no roster row
NothingChanges == draft' = draft /\ order' = order /\ picks' = picks /\ roster' = roster

\* C21: start_draft fails and changes nothing when the draft has no picks or
\* is already completed; otherwise it sets is_active = true and
\* current_pick = 1, puts pick 1 ON_CLOCK with a clock start of now, and sets
\* started_at to now only when started_at was unset (an existing started_at
\* is kept).
C21_StartDraftContract ==
    [][ CallOf("start_draft") =>
            IF draft.is_completed \/ picks = <<>>
            THEN last'.exc = "ValueError" /\ NothingChanges
            ELSE /\ last'.exc = "" /\ last'.ret = 1
                 /\ draft'.is_active
                 /\ draft'.current_pick = 1
                 /\ draft'.current_pick_started_at = now
                 /\ picks'[1].status = STATUS_ON_CLOCK
                 /\ picks'[1].started_at = now
                 /\ draft'.started_at =
                        IF draft.started_at = NoTime THEN now ELSE draft.started_at ]_vars

\* C21 witness: start_draft has succeeded on a draft that had been started
\* earlier: pick 1 is on the clock since now, started_at is the earlier time.
C21_Witness ==
    /\ last.op = "start_draft" /\ last.exc = ""
    /\ draft.is_active /\ draft.current_pick = 1
    /\ picks[1].status = STATUS_ON_CLOCK /\ picks[1].started_at = now
    /\ draft.current_pick_started_at = now
    /\ draft.started_at # NoTime /\ draft.started_at < now

\* C22: tick_draft is idempotent and side-effect-free while the current pick
\* has not expired: on an active draft whose ON_CLOCK pick has an elapsed time
\* not exceeding time_per_pick it changes no Draft field, no pick and no
\* roster row and returns that ON_CLOCK pick (so any number of calls leave
\* the state as it was and return the same pick); on a draft that is not
\* active it changes nothing and returns nothing.
C22_TickBeforeExpiryChangesNothing ==
    [][ CallOf("tick_draft") =>
            /\ ( /\ draft.is_active /\ ~draft.is_completed
                 /\ OnClock(picks) # {}
                 /\ now - picks[Min(OnClock(picks))].started_at <= draft.time_per_pick )
               => ( /\ NothingChanges
                    /\ last'.exc = ""
                    /\ last'.ret = Min(OnClock(picks))
                    /\ picks'[last'.ret].status = STATUS_ON_CLOCK )
            /\ ~draft.is_active
               => (NothingChanges /\ last'.exc = "" /\ last'.ret = NoPick) ]_vars

\* C22 witness: tick_draft was called when the ON_CLOCK pick had used
\* exactly time_per_pick seconds, and returned that pick, still ON_CLOCK.
C22_Witness ==
    /\ last.op = "tick_draft" /\ last.exc = ""
    /\ draft.is_active
    /\ last.ret # NoPick /\ picks[last.ret].status = STATUS_ON_CLOCK
    /\ now - picks[last.ret].started_at = draft.time_per_pick
    /\ draft.current_pick = last.ret

\* the first ON_CLOCK pick, as get_current_pick returns it
Current == Min(OnClock(picks))

\* C23: when the clock of the ON_CLOCK pick has run longer than time_per_pick
\* and nobody has submitted, the next tick_draft call resolves that pick as
\* AUTO and puts the next pick ON_CLOCK with a clock start equal to the time
\* of the tick call (not the time the previous pick expired); a pick whose
\* elapsed time equals time_per_pick exactly is not yet expired and stays
\* ON_CLOCK.
C23_ExpiredPickIsAutoResolvedAtTick ==
    [][ ( /\ CallOf("tick_draft")
          /\ draft.is_active /\ ~draft.is_completed
          /\ OnClock(picks) # {} )
        => /\ now - picks[Current].started_at > draft.time_per_pick
              => ( /\ last'.exc = ""
                   /\ picks'[Current].status = STATUS_AUTO
                   /\ picks'[Current].made_at = now
                   /\ Current < Len(picks)
                        => ( /\ picks'[Current + 1].status = STATUS_ON_CLOCK
                             /\ picks'[Current + 1].started_at = now
                             /\ draft'.current_pick = Current + 1
                             /\ draft'.current_pick_started_at = now
                             /\ last'.ret = Current + 1 ) )
           /\ now - picks[Current].started_at = draft.time_per_pick
              => picks'[Current] = picks[Current] ]_vars

\* C23 witness: time_per_pick = 5, pick 1 on the clock at 0, tick at 6:
\* pick 1 is AUTO, pick 2 is ON_CLOCK with clock start 6.
C23_Witness ==
    /\ last.op = "tick_draft" /\ last.exc = ""
    /\ draft.time_per_pick = 5
    /\ picks[1].status = STATUS_AUTO /\ picks[1].started_at = 0 /\ picks[1].made_at = 6
    /\ picks[2].status = STATUS_ON_CLOCK /\ picks[2].started_at = 6
    /\ draft.current_pick = 2 /\ draft.current_pick_started_at = 6
    /\ now = 6

-----------------------------------------------------------------------------
(* Auto-pick over a larger player table.

   A started LINEAR draft of MaxTeams teams over five players, two of them with the
   same full_name and fantasy_score (Player.full_name is not unique, nhl_id
   is).  Team 1 may have two goalies on its roster from before the grid was
   built: create_or_rebuild_draft deletes the picks and keeps the Roster
   rows. *)

\* PlayerTable and two more rows: a defenceman named and scored like player
\* 2, and a goalie scored like player 1 whose name sorts before ("B" < "H")
AutoPlayerTable ==
    PlayerTable \o
    <<  [full_name |-> <<65>>, position |-> <<68>>, fantasy_score |-> 7, is_active |-> TRUE],
        [full_name |-> <<66>>, position |-> <<71>>, fantasy_score |-> 9, is_active |-> TRUE] >>

InitAuto ==
    /\ teams = AllTeams
    /\ draft = StartedRows("LINEAR").draft
    /\ order = StartedRows("LINEAR").order
    /\ picks = StartedRows("LINEAR").picks
    /\ roster \in {{}, {<<1, 3>>, <<1, 5>>}}
    /\ players = AutoPlayerTable
    /\ now = 0
    /\ last = [op |-> "start_draft", exc |-> ""]
    /\ calls = [build |-> 1, start |-> 1]
    /\ reqs = [p \in Procs |-> IdleReq]

NextAuto == Tick \/ Pick \/ PassTimeLive

SpecAuto == InitAuto /\ [][NextAuto]_vars

\* C26: a successful make_pick resolves exactly the pick that was ON_CLOCK:
\* that pick gets the submitted player, status MADE and a resolution time,
\* the player is on the owning team's roster afterwards (a player already on
\* that roster is not an error), no other pick's player changes, and the
\* draft advances by one pick (the next pick is ON_CLOCK and current_pick is
\* one more, or the draft is completed when the pick was the last).
C26_MakePickResolvesThePickOnTheClock ==
    [][ (CallOf("make_pick") /\ last'.exc = "") =>
            /\ OnClock(picks) # {}
            /\ manager_id(picks[Current].team) = last'.user
            /\ picks'[Current].player = last'.player_id
            /\ picks'[Current].status = STATUS_MADE
            /\ picks'[Current].made_at = now
            /\ picks'[Current].team = picks[Current].team
            /\ roster' = roster \cup {<<picks[Current].team, last'.player_id>>}
            /\ \A n \in DOMAIN picks : n # Current => picks'[n].player = picks[n].player
            /\ DOMAIN picks' = DOMAIN picks
            /\ IF Current < Len(picks)
               THEN /\ draft'.current_pick = draft.current_pick + 1
                    /\ draft'.current_pick = Current + 1
                    /\ picks'[Current + 1].status = STATUS_ON_CLOCK
                    /\ last'.ret = Current + 1
                    /\ draft'.is_active /\ ~draft'.is_completed
               ELSE /\ draft'.is_completed /\ ~draft'.is_active
                    /\ draft'.current_pick = draft.current_pick
                    /\ last'.ret = Current ]_vars

\* C26 witness: the manager of team 1 has picked player 3, who was on team
\* 1's roster already; the pick is MADE and the next pick is on the clock.
C26_Witness ==
    /\ last.op = "make_pick" /\ last.exc = "" /\ last.user = 1 /\ last.player_id = 3
    /\ \E n \in DOMAIN picks :
            /\ picks[n].status = STATUS_MADE /\ picks[n].player = 3 /\ picks[n].team = 1
            /\ picks[n].made_at = now
            /\ last.ret = n + 1
            /\ picks[n + 1].status = STATUS_ON_CLOCK
    /\ <<1, 3>> \in roster
    /\ draft.current_pick = last.ret

\* the active players that no pick of the draft holds
Eligible == {p \in Players : players[p].is_active /\ \A n \in DOMAIN picks : picks[n].player # p}

\* the clock of the ON_CLOCK pick has run out on an active draft
ClockExpired ==
    /\ draft.is_active /\ ~draft.is_completed
    /\ OnClock(picks) # {}
    /\ now - picks[Current].started_at > draft.time_per_pick

-----------------------------------------------------------------------------
(* Properties of the auto-pick *)

\* the goalies on a team's roster
GoalieCount(team) == Cardinality({r \in roster : r[1] = team /\ IsGoalie(r[2])})

\* p is the player of Q with the highest fantasy_score, the first by name
\* among those of that score
Best(p, Q) ==
    /\ p \in Q
    /\ \A q \in Q :
            \/ players[p].fantasy_score > players[q].fantasy_score
            \/ /\ players[p].fantasy_score = players[q].fantasy_score
               /\ ~StrLess(players[q].full_name, players[p].full_name)

\* the eligible players of the pool the need inference prefers for the team
\* of the ON_CLOCK pick
PreferredPool ==
    IF GoalieCount(picks[Current].team) < GoalieTarget
    THEN {p \in Eligible : IsGoalie(p)}
    ELSE {p \in Eligible : ~IsGoalie(p)}

\* C28: the player chosen by auto-pick is never inactive and never a player
\* already assigned to a pick of this draft; when the owning team has fewer
\* than 2 goalies on its roster and an eligible goalie exists it is the
\* eligible goalie with the highest fantasy_score, otherwise (2 or more
\* goalies and an eligible skater exists) the eligible non-goalie with the
\* highest fantasy_score; equal scores are broken by ascending name, so the
\* choice is a deterministic function of the state: on an expired pick
\* _best_available_player can return one player only.
C28_AutopickChoiceIsBestAndDeterministic ==
    /\ [][ ( /\ CallOf("tick_draft") /\ ClockExpired
             /\ last'.exc = "" /\ picks'[Current].player # NoPlayer )
           => /\ picks'[Current].player \in Eligible
              /\ PreferredPool # {} => Best(picks'[Current].player, PreferredPool) ]_vars
    /\ [](ClockExpired => \A p, q \in AutopickChoices(Rows(draft)) : p = q)

\* C29: when the pool preferred by the need inference has no eligible player
\* but the other pool has one, auto-pick selects the best eligible player of
\* the unrestricted pool, with the same exclusions and tie-break (a team with
\* 2 goalies rostered, no eligible skater, some eligible goalie: a goalie is
\* selected), and it assigns no player only when no eligible player exists at
\* all.
C29_AutopickFallsBackToAnyEligiblePlayer ==
    [][ (CallOf("tick_draft") /\ ClockExpired /\ last'.exc = "") =>
            /\ (PreferredPool = {} /\ Eligible # {})
                    => Best(picks'[Current].player, Eligible)
            /\ picks'[Current].player = NoPlayer => Eligible = {} ]_vars

\* C29 witness: team 1 has goalies 3 and 5 on its roster, the skaters 2 and
\* 4 are held by earlier picks, and the last pick, team 1's, was auto-picked
\* with a goalie.
C29_Witness ==
    /\ last.op = "tick_draft" /\ last.exc = ""
    /\ {<<1, 3>>, <<1, 5>>} \subseteq roster
    /\ picks[4].team = 1 /\ picks[4].status = STATUS_AUTO
    /\ picks[4].player # NoPlayer /\ IsGoalie(picks[4].player)
    /\ {2, 4} \subseteq {picks[n].player : n \in 1..3}

-----------------------------------------------------------------------------
(* Pausing a draft.

   league/services/draft_engine.py has a commissioner's pause_draft and a
   start_draft of its own, which only flips is_active; the views and the admin
   start a draft with start_draft of league/draft/services.py.  The draft
   room's calls go on meanwhile. *)

\* pause_draft of draft_engine.py
PauseDraft(s) ==
    IF s.d.is_completed THEN RaiseAtomic(s, s, "ValidationError")
    ELSE Return(SaveDraft([s EXCEPT !.d.is_active = FALSE], {"is_active"}), NoPick)

\* start_draft of draft_engine.py
EngineStartDraft(s, t) ==
    IF s.order = {} THEN RaiseAtomic(s, s, "ValidationError")
    ELSE IF s.d.is_completed THEN RaiseAtomic(s, s, "ValidationError")
    ELSE Return(SaveDraft([s EXCEPT !.d.started_at = IF s.d.started_at = NoTime
                                                     THEN t ELSE s.d.started_at,
                                    !.d.is_active = TRUE],
                          {"is_active", "started_at"}),
                NoPick)

InitPause ==
    /\ teams = AllTeams
    /\ \E dtype \in {"SNAKE", "LINEAR"} :
            /\ draft = BuiltRows(dtype).draft
            /\ order = BuiltRows(dtype).order
            /\ picks = BuiltRows(dtype).picks
    /\ roster = {}
    /\ players = PlayerTable
    /\ now = 0
    /\ last = [op |-> "create_or_rebuild_draft", exc |-> ""]
    /\ calls = [build |-> 1, start |-> 0]
    /\ reqs = [p \in Procs |-> IdleReq]

Pause ==
    /\ Store(PauseDraft(Rows(draft)), "pause_draft")
    /\ UNCHANGED <<teams, players, now, reqs>>

EngineStart ==
    /\ Store(EngineStartDraft(Rows(draft), now), "engine_start_draft")
    /\ UNCHANGED <<teams, players, now, reqs>>

NextPause == Pause \/ EngineStart \/ Start \/ Tick \/ Pick \/ PassTime

SpecPause == InitPause /\ [][NextPause]_vars

-----------------------------------------------------------------------------
(* Properties of pausing *)

\* a draft that pause_draft stopped while a pick was on the clock
Paused == ~draft.is_active /\ ~draft.is_completed /\ OnClock(picks) # {}

\* C30: pausing an active draft (pause_draft sets is_active = false without
\* completing it) and then returning it to active does not reset the current
\* pick or its clock: after the resume, current_pick, the ON_CLOCK pick and
\* its clock start are the ones from before the pause, and no already
\* resolved pick is put back on the clock.
C30_ResumeKeepsCurrentPickAndClock ==
    /\ [][ (last'.op = "pause_draft" /\ last'.exc = "") =>
                /\ ~draft'.is_active
                /\ draft'.is_completed = draft.is_completed
                /\ draft'.current_pick = draft.current_pick
                /\ draft'.current_pick_started_at = draft.current_pick_started_at
                /\ picks' = picks ]_vars
    /\ [][ (Paused /\ draft'.is_active) =>
                /\ draft'.current_pick = draft.current_pick
                /\ draft'.current_pick_started_at = draft.current_pick_started_at
                /\ OnClock(picks') = OnClock(picks)
                /\ \A n \in OnClock(picks) : picks'[n].started_at = picks[n].started_at
                /\ \A n \in DOMAIN picks :
                        Resolved(picks[n]) => picks'[n].status = picks[n].status ]_vars

-----------------------------------------------------------------------------
(* Saving a pick. DraftPickAdmin (league/admin.py) is the one place that
   saves a DraftPick with new owners: its change form submits the team and the
   original team of one pick, and DraftPick.save() runs full_clean() and so
   clean() before the row is written. *)

\* DraftPick.save() whose clean() does not look at draft.is_active
DraftPickSave_NoActiveCheck(s, n, team, original_team) ==
    Return([s EXCEPT !.picks[n].team = team,
                     !.picks[n].original_team = original_team], n)

\* DraftPick.save() of the stored pick n with team and original_team
\* assigned: clean() compares them with the stored row when the pick's draft
\* (self.draft, read from the store) is active
DraftPickSave(s, n, team, original_team) ==
    IF s.draft.is_active /\ s.picks[n].team # team
    THEN RaiseAtomic(s, s, "ValidationError")
    ELSE IF s.draft.is_active /\ s.picks[n].original_team # original_team
    THEN RaiseAtomic(s, s, "ValidationError")
    ELSE Return([s EXCEPT !.picks[n].team = team,
                          !.picks[n].original_team = original_team], n)

\* saves of a pick that are accepted in one behaviour
MaxSaves == 1

\* a draft of one round (where SNAKE and LINEAR build the same grid), built,
\* with nobody on a roster
InitOwn ==
    /\ teams = AllTeams
    /\ \E dtype \in {"LINEAR"} :
         \E res \in {CreateOrRebuildDraft(
                        [d |-> NewDraft(dtype, "ALPHA"), draft |-> NewDraft(dtype, "ALPHA"),
                         order |-> {}, picks |-> <<>>, roster |-> {}],
                        MinRounds, MinTimePerPick, SortedAlpha(teams))} :
            /\ draft = res.s.draft
            /\ order = res.s.order
            /\ picks = res.s.picks
    /\ roster = {}
    /\ players = PlayerTable
    /\ now = 0
    /\ last = [op |-> "", exc |-> "", ret |-> NoPick, user |-> 0, player_id |-> NoPlayer]
    /\ calls = [build |-> 0, start |-> 0, save |-> 0]
    /\ reqs = [p \in Procs |-> IdleReq]

\* the change form of DraftPickAdmin saved for pick n
SavePick ==
    /\ \E n \in DOMAIN picks, team \in AllTeams, original_team \in AllTeams \cup {NoTeam} :
        \E res \in {DraftPickSave(Rows(draft), n, team, original_team)} :
            /\ res.exc = "" => calls.save < MaxSaves
            /\ StoreRows(res)
            /\ last' = [op |-> "save_pick", exc |-> res.exc, ret |-> res.ret, user |-> 0,
                        player_id |-> NoPlayer, pick |-> n, team |-> team,
                        original_team |-> original_team]
            /\ calls' = IF res.exc = "" THEN [calls EXCEPT !.save = @ + 1] ELSE calls
    /\ UNCHANGED <<teams, players, now, reqs>>

NextOwn == SavePick \/ RunStart \/ RunTick \/ RunPick \/ RunPassTime

SpecOwn == InitOwn /\ [][NextOwn]_vars

\* C31: while the draft is active no call (start_draft, tick_draft and
\* make_pick with the autopick_current and advance_to_next_pick they run, and
\* the save of a pick) changes the team or the original team of any pick, and
\* the save of a pick of an active draft with a changed team or original team
\* raises ValidationError and writes nothing.
C31_PickOwnersLockedWhileActive ==
    [][ /\ draft.is_active =>
            /\ DOMAIN picks' = DOMAIN picks
            /\ \A n \in DOMAIN picks :
                    /\ picks'[n].team = picks[n].team
                    /\ picks'[n].original_team = picks[n].original_team
        /\ ( /\ CallOf("save_pick")
             /\ draft.is_active
             /\ \/ last'.team # picks[last'.pick].team
                \/ last'.original_team # picks[last'.pick].original_team )
           => last'.exc = "ValidationError" /\ NothingChanges
      ]_vars

\* a traded pick (team 2 owns pick 1 of team 1) of an active draft, after a
\* save that tried to give it back was refused
C31_Witness ==
    /\ draft.is_active
    /\ last.op = "save_pick"
    /\ last.exc = "ValidationError"
    /\ picks[1].team = 2
    /\ picks[1].original_team = 1
    /\ \E n \in DOMAIN picks : Resolved(picks[n])

-----------------------------------------------------------------------------
(* The draft-room request. draft_room (league/views.py) loads the Draft row,
   calls tick_draft inside try/except, and on a POST with a player_id calls
   make_pick inside try/except. *)

\* tick_draft(draft) as draft_room calls it: the parameter of tick_draft is
\* keyword-only ("def tick_draft(*, draft)"), so the positional call raises
\* TypeError before the body runs
TickDraftPositional(s) == RaiseAtomic(s, s, "TypeError")

\* draft_room up to the queries of its page: "except Exception: pass" drops
\* the exception of the tick, and a POST with a player_id goes on to make_pick
\* with the Draft object the view loaded
DraftRoomRequest(s, t, user, player_id) ==
    LET tick == TickDraftPositional(s)
    IN  IF player_id = NoPlayer THEN Return(tick.s, NoPick)
        ELSE MakePick(tick.s, t, user, player_id)

\* a request of a league member: a GET (no player_id) or a POST
DraftRoom ==
    /\ \E user \in Users, player_id \in Players \cup {UnknownPlayer, NoPlayer} :
        \E res \in {DraftRoomRequest(Rows(draft), now, user, player_id)} :
            /\ StoreRows(res)
            /\ last' = Call("draft_room", res, user, player_id)
    /\ UNCHANGED <<teams, players, now, calls, reqs>>

NextRoom == RunStart \/ DraftRoom \/ RunPassTime

SpecRoom == InitRun /\ [][NextRoom]_vars

\* C32: a draft-room request that finds the ON_CLOCK pick of an active draft
\* overdue auto-picks it (the pick ends AUTO, resolved at the time of the
\* request), and a manual submission accepted in the same request resolves
\* another pick than the overdue one: the pick the tick put on the clock.
C32_DraftRoomTicksFirst ==
    [][ ( /\ CallOf("draft_room")
          /\ draft.is_active /\ ~draft.is_completed
          /\ OnClock(picks) # {}
          /\ IsPickExpired(draft, now) )
        => /\ picks'[Current].status = STATUS_AUTO
           /\ picks'[Current].made_at = now
           /\ (last'.player_id # NoPlayer /\ last'.exc = "")
                => \E n \in DOMAIN picks' \ {Current} :
                        /\ n \in OnClock(picks) \/ picks[n].status = STATUS_UPCOMING
                        /\ picks'[n].status = STATUS_MADE
                        /\ picks'[n].player = last'.player_id
      ]_vars

-----------------------------------------------------------------------------
(* Properties of the tick on a drifted state *)

\* an active draft without an ON_CLOCK pick, its current_pick naming a row
Drifted ==
    /\ draft.is_active /\ ~draft.is_completed
    /\ OnClock(picks) = {}
    /\ draft.current_pick \in DOMAIN picks

\* C33: a tick_draft call on an active draft that has no ON_CLOCK pick puts
\* the pick whose pick_number is the stored current_pick ON_CLOCK, does not
\* increase current_pick, and skips no unresolved pick (no pick that was
\* unresolved at or after current_pick lies before current_pick afterwards).
C33_TickRepairsFromCurrentPick ==
    [][ (CallOf("tick_draft") /\ Drifted) =>
            /\ picks'[draft.current_pick].status = STATUS_ON_CLOCK
            /\ draft'.current_pick <= draft.current_pick
            /\ \A n \in DOMAIN picks :
                    (~Resolved(picks[n]) /\ n >= draft.current_pick)
                        => n >= draft'.current_pick
      ]_vars

-----------------------------------------------------------------------------
(* advance_to_next_pick called on its own *)

\* advance_to_next_pick(draft=draft) with the stored Draft row
Advance ==
    /\ \E res \in {AdvanceToNextPick(Rows(draft), now)} :
            /\ StoreRows(res)
            /\ last' = Call("advance_to_next_pick", res, 0, NoPlayer)
    /\ UNCHANGED <<teams, players, now, calls, reqs>>

NextAdvance == Advance \/ RunStart \/ RunTick \/ RunPassTime

SpecAdvance == InitRun /\ [][NextAdvance]_vars

\* C34: on a draft that has its grid, advance_to_next_pick with
\* next = current_pick + 1 either (next > rounds * teamCount) sets
\* is_completed = true, is_active = false and completed_at = now, returns no
\* pick and leaves current_pick and every pick as they were, or (otherwise)
\* sets current_pick = next, puts the pick numbered next ON_CLOCK with
\* started_at = current_pick_started_at = now, and returns it; it writes
\* nothing else.
C34_AdvanceContract ==
    [][ (CallOf("advance_to_next_pick") /\ picks # <<>>) =>
         LET next == draft.current_pick + 1
         IN  /\ last'.exc = ""
             /\ roster' = roster /\ order' = order
             /\ IF next > draft.rounds * Cardinality(teams)
                THEN /\ draft' = [draft EXCEPT !.is_completed = TRUE, !.is_active = FALSE,
                                               !.completed_at = now]
                     /\ picks' = picks
                     /\ last'.ret = NoPick
                ELSE /\ draft' = [draft EXCEPT !.current_pick = next,
                                               !.current_pick_started_at = now]
                     /\ picks' = [picks EXCEPT ![next].status = STATUS_ON_CLOCK,
                                               ![next].started_at = now]
                     /\ last'.ret = next
      ]_vars

\* advance_to_next_pick has just completed the draft from its last pick
C34_Witness ==
    /\ last.op = "advance_to_next_pick"
    /\ last.ret = NoPick
    /\ draft.is_completed /\ ~draft.is_active
    /\ draft.current_pick = Len(picks)
    /\ draft.completed_at = now
    /\ now > 0

-----------------------------------------------------------------------------
(* Properties of the advance after a pick, with concurrent requests *)

\* request p ends its make_pick or tick_draft in this step having resolved a
\* pick (the writes of make_pick or of autopick_current have been stored)
ResolvesNow(p) ==
    /\ reqs[p].pc = "checked"
    /\ reqs'[p].pc = "done"
    /\ reqs'[p].exc = ""

\* C35: when a make_pick or an autopick_current succeeds, the pick it
\* resolved is not ON_CLOCK afterwards, the stored current_pick has not moved
\* backwards, and, unless the resolved pick was the last one, the pick
\* numbered one more than it is ON_CLOCK and is the stored current_pick; this
\* also when the request's Draft object was loaded before another request
\* advanced the draft.
C35_AdvanceFollowsTheResolvedPick ==
    [][ \A p \in Procs :
          ResolvesNow(p) =>
            LET resolved == reqs[p].current
            IN  /\ picks'[resolved].status # STATUS_ON_CLOCK
                /\ draft'.current_pick >= draft.current_pick
                /\ resolved < Len(picks) =>
                        /\ picks'[resolved + 1].status = STATUS_ON_CLOCK
                        /\ draft'.current_pick = resolved + 1
      ]_vars

-----------------------------------------------------------------------------
(* Properties of the stored state of a running draft *)

\* C36: whenever the draft is active, its current_pick_started_at is set,
\* and every ON_CLOCK pick has the stored current_pick as its pick_number and
\* current_pick_started_at as its started_at.
C36_OnClockPickIsCurrentPick ==
    draft.is_active =>
        /\ draft.current_pick_started_at # NoTime
        /\ \A n \in OnClock(picks) :
                /\ picks[n].pick_number = draft.current_pick
                /\ picks[n].started_at = draft.current_pick_started_at


-----------------------------------------------------------------------------
(* Teams joining and leaving while the draft runs.  create_team
   (league/views.py) has no look at the draft, and TeamAdmin (league/admin.py)
   deletes a team: its DraftOrder and Roster rows go with it (CASCADE) and
   the picks it owned keep their rows with team = None (SET_NULL). *)

\* Team.delete() through TeamAdmin
DeleteTeam ==
    /\ \E t \in teams :
            /\ teams' = teams \ {t}
            /\ order' = {o \in order : o.team # t}
            /\ roster' = {r \in roster : r[1] # t}
            /\ picks' = [n \in DOMAIN picks |->
                            [picks[n] EXCEPT
                                !.team = IF @ = t THEN NoTeam ELSE @,
                                !.original_team = IF @ = t THEN NoTeam ELSE @]]
    /\ last' = [op |-> "delete_team", exc |-> ""]
    /\ UNCHANGED <<draft, players, now, calls, reqs>>

NextTeams == Tick \/ Pick \/ PassTimeLive \/ CreateTeam \/ DeleteTeam

SpecTeams == InitLive /\ [][NextTeams]_vars

\* C37: whenever the draft is completed, every pick of its grid is MADE or
\* AUTO: none is left UPCOMING or ON_CLOCK.
C37_CompletedDraftHasNoOpenPick ==
    draft.is_completed => \A n \in DOMAIN picks : Resolved(picks[n])


\* C38: the total that advance_to_next_pick uses, rounds times the teams of
\* the league, is the number of DraftPick rows whenever the draft is active,
\* also after a team has joined or left; so a step completes the draft only
\* with every row resolved, the step that resolves the row with the highest
\* pick_number completes it, and no tick ends with the DoesNotExist of a
\* pick number that has no row.
C38_TotalIsTheNumberOfRows ==
    /\ [](draft.is_active => draft.rounds * Cardinality(teams) = Len(picks))
    /\ [][ /\ (~draft.is_completed /\ draft'.is_completed)
                => \A n \in DOMAIN picks' : Resolved(picks'[n])
           /\ ( /\ picks # <<>> /\ DOMAIN picks' = DOMAIN picks
                /\ ~Resolved(picks[Len(picks)])
                /\ Resolved(picks'[Len(picks)]) )
                => draft'.is_completed
           /\ last'.op = "tick_draft" => last'.exc # "DoesNotExist"
         ]_vars

-----------------------------------------------------------------------------
(* A draft room nobody loads for a while.  The clock is only read when a
   call arrives, so several pick durations can pass between two calls. *)

\* the pick durations that pass at once
MaxIdle == 3

\* the wall clock stops after one long and one short wait
MaxIdleTime == (MaxIdle + 1) * (MinTimePerPick + 1)

\* no call arrives for k pick durations and a little more
Idle ==
    /\ draft.is_active
    /\ \E k \in 1..MaxIdle :
            /\ now + k * draft.time_per_pick + 1 <= MaxIdleTime
            /\ now' = now + k * draft.time_per_pick + 1
    /\ UNCHANGED <<draft, order, picks, roster, teams, players, last, calls, reqs>>

NextIdle == Start \/ Tick \/ Pick \/ Idle

SpecIdle == InitLive /\ [][NextIdle]_vars

\* the picks a step resolves
ResolvedByStep == {n \in DOMAIN picks : ~Resolved(picks[n]) /\ Resolved(picks'[n])}

\* C39: a tick_draft call resolves at most one pick, however long the draft
\* was left alone: it resolves nothing but the pick that was ON_CLOCK, and
\* that only when the clock the expiry test reads had expired; the pick it
\* puts on the clock starts a clock of its own at the time of the tick, so
\* that pick is not expired at the end of the tick and waits for a later one.
C39_TickResolvesAtMostOnePick ==
    [][ CallOf("tick_draft") =>
            /\ Cardinality(ResolvedByStep) <= 1
            /\ \A n \in ResolvedByStep :
                    /\ n = Current
                    /\ IsPickExpired(draft, now)
                    /\ picks'[n].status = STATUS_AUTO
            /\ \A n \in DOMAIN picks :
                    (picks'[n].status = STATUS_ON_CLOCK /\ picks'[n] # picks[n])
                        => /\ picks'[n].started_at = now
                           /\ draft'.current_pick_started_at = now
                           /\ ~IsPickExpired(draft', now)
      ]_vars

\* after three pick durations without a call, one tick has resolved pick 1
\* alone and put pick 2 on the clock
C39_Witness ==
    /\ last.op = "tick_draft"
    /\ picks[1].status = STATUS_AUTO
    /\ picks[1].made_at = now
    /\ now > picks[1].started_at + 3 * draft.time_per_pick
    /\ picks[2].status = STATUS_ON_CLOCK
    /\ picks[2].started_at = now
    /\ \A n \in DOMAIN picks : n > 2 => picks[n].status = STATUS_UPCOMING

-----------------------------------------------------------------------------
(* Properties of the rosters *)

\* the picks that hold a player
WithPlayer == {n \in DOMAIN picks : picks[n].player # NoPlayer}

====
